---- MODULE Spec2Model ----
\* Ledger repository of Easy-Ledger (src/src/lib/storage.ts): the persisted
\* document, the module-level defaultState object, and the repository
\* operations that read-modify-write the document.
EXTENDS Integers, Sequences, FiniteSets, TLC

\* ---------------------------------------------------------------- bounds
MaxSteps == 3        \* calls and clock ticks in one session
MaxClock == 1        \* clock ticks in one session
TicksPerMonth == 1   \* clock ticks in a month

\* ------------------------------------------------------- program constants
CURRENT_VERSION == "1.2"
CALCULATOR_VERSION == "1.1"

VARIABLES
    storage,       \* localStorage[STORAGE_KEY]: <<>> when the key is absent, else <<document>>
    defaultState,  \* the module-level defaultState object; its arrays are shared by reference
    idSeq,         \* number of identifiers generateId has handed out
    clock,         \* the wall clock (Date.now()), in ticks
    steps,         \* calls and ticks so far in this session
    op,            \* the last repository call: its name, arguments and what it returned
    setItemThrows, \* whether localStorage.setItem throws (quota exceeded, storage unavailable)
    page           \* the RecordPage component: its state, its scheduled effect and timers

vars == <<storage, defaultState, idSeq, clock, steps, op, setItemThrows, page>>

\* ------------------------------------------------------------ array helpers
\* Array.prototype.findIndex over the positions that pass the test, 1-based:
\* the first of them; 0 stands for -1.
FindIndex(matching) ==
    IF matching = {} THEN 0
    ELSE CHOOSE i \in matching : \A j \in matching : i <= j

\* Array.prototype.splice(index, 1)
Splice(s, index) == SubSeq(s, 1, index - 1) \o SubSeq(s, index + 1, Len(s))

\* Object spread { ...base, ...over }
Spread(base, over) == over @@ base

Range(s) == {s[i] : i \in 1..Len(s)}

\* ------------------------------------------------------------- clock, ids
\* new Date(): the clock starts in December 2023 and a month lasts TicksPerMonth ticks.
MonthIndex(t) == 11 + (t \div TicksPerMonth)

getCurrentYearMonth == [year |-> 2023 + (MonthIndex(clock) \div 12),
                        month |-> (MonthIndex(clock) % 12) + 1]

\* The k-th identifier generateId returns during the current call.
generateId(k) == ToString(idSeq + k)

\* ---------------------------------------------------------- load and save
defaultSettings == [hideBalance |-> FALSE, theme |-> "blue"]

\* parsed.settings, spread into an object literal: nothing when absent
settingsOf(parsed) == IF "settings" \in DOMAIN parsed THEN parsed.settings ELSE <<>>

\* loadData: { ...defaultState, ...parsed, settings: {...}, version }, or a
\* shallow copy of defaultState (whose arrays are the very arrays of defaultState).
loadData ==
    IF storage # <<>>
    THEN Spread(Spread(defaultState, storage[1]),
                [settings |-> Spread(defaultState.settings, settingsOf(storage[1])),
                 version  |-> CURRENT_VERSION])
    ELSE defaultState

\* localStorage.setItem(STORAGE_KEY, JSON.stringify(state)): the defined
\* properties of state, by value. When setItem throws, the catch logs the error
\* and the stored text stays as it was.
saveData(state) ==
    IF setItemThrows THEN storage ELSE <<[f \in DOMAIN state |-> state[f]]>>

\* The calculator module's own saveData: { ...data, version: '1.1' }. It has no
\* try: when setItem throws, the stored text stays and the exception goes on to
\* the caller.
saveDataCalculator(state) ==
    IF setItemThrows THEN storage ELSE <<Spread(state, [version |-> CALCULATOR_VERSION])>>

\* A loaded array is defaultState's own array when the stored document has no such field.
aliased(field) == storage = <<>> \/ field \notin DOMAIN storage[1]

\* What in-place mutation of the loaded arrays does to defaultState.
Shared(accounts, records, logs) ==
    [defaultState EXCEPT !.accounts = IF aliased("accounts") THEN accounts ELSE @,
                         !.records  = IF aliased("records") THEN records ELSE @,
                         !.logs     = IF aliased("logs") THEN logs ELSE @]

getAllAccounts == loadData.accounts

\* ------------------------------------------------------------ entity shapes
MonthlyRecord(id, accountId, year, month, balance) ==
    [id |-> id, accountId |-> accountId, year |-> year, month |-> month, balance |-> balance]

RecordLog(id, accountId, accountName, year, month, oldBalance, newBalance, timestamp, operationType) ==
    [id |-> id, accountId |-> accountId, accountName |-> accountName,
     year |-> year, month |-> month, oldBalance |-> oldBalance, newBalance |-> newBalance,
     timestamp |-> timestamp, operationType |-> operationType]

\* r => r.accountId === accountId && r.year === year && r.month === month
findRecord(records, accountId, year, month) ==
    FindIndex({i \in 1..Len(records) :
                  /\ records[i].accountId = accountId
                  /\ records[i].year = year
                  /\ records[i].month = month})

findAccount(accounts, id) == FindIndex({i \in 1..Len(accounts) : accounts[i].id = id})

\* ------------------------------------------------------------- addAccount
\* Variant: the creation log records a new balance of 0.
addAccountLogZero(newAccount, ym, logId) ==
    RecordLog(logId, newAccount.id, newAccount.name, ym.year, ym.month,
              0, 0, clock, "account_create")

\* Variant: the record is pushed whatever the initial balance.
addAccountRecordsAlways(records, newAccount, ym, recordId) ==
    Append(records, MonthlyRecord(recordId, newAccount.id, ym.year, ym.month, newAccount.balance))

\* if (newAccount.balance !== 0) data.records.push({...})
addAccountRecords(records, newAccount, ym, recordId) ==
    IF newAccount.balance # 0
    THEN Append(records, MonthlyRecord(recordId, newAccount.id, ym.year, ym.month, newAccount.balance))
    ELSE records

\* data.logs.push({... operationType: 'account_create'})
addAccountLog(newAccount, ym, logId) ==
    RecordLog(logId, newAccount.id, newAccount.name, ym.year, ym.month,
              0, newAccount.balance, clock, "account_create")

addAccount(account) ==
    LET data == loadData
        ym == getCurrentYearMonth
        newAccount == Spread(account, [id |-> generateId(1)])
        used == IF newAccount.balance # 0 THEN 3 ELSE 2
        accounts == Append(data.accounts, newAccount)
        records == addAccountRecords(data.records, newAccount, ym, generateId(2))
        logs == Append(data.logs, addAccountLog(newAccount, ym, generateId(used)))
    IN  /\ storage' = saveData([data EXCEPT !.accounts = accounts, !.records = records, !.logs = logs])
        /\ defaultState' = Shared(accounts, records, logs)
        /\ idSeq' = idSeq + used
        /\ op' = [name |-> "addAccount", args |-> <<account>>, ret |-> "account"]
        /\ UNCHANGED clock

\* ---------------------------------------------------------- updateAccount
\* Variant: a balance in the updates counts as a change even when it is the same.
balanceChangedAlways(updates, oldAccount) ==
    "balance" \in DOMAIN updates

\* updates.balance !== undefined && updates.balance !== oldAccount.balance
balanceChanged(updates, oldAccount) ==
    "balance" \in DOMAIN updates /\ updates.balance # oldAccount.balance

infoChanged(updates, oldAccount) ==
    \/ "name" \in DOMAIN updates /\ updates.name # oldAccount.name
    \/ "note" \in DOMAIN updates /\ updates.note # oldAccount.note
    \/ "type" \in DOMAIN updates /\ updates.type # oldAccount.type
    \/ "icon" \in DOMAIN updates /\ updates.icon # oldAccount.icon

\* The current-month record is set to the new balance: found and assigned, or pushed.
updateAccountRecords(records, id, ym, balance, recordId) ==
    LET existingRecord == findRecord(records, id, ym.year, ym.month)
    IN  IF existingRecord # 0
        THEN [records EXCEPT ![existingRecord].balance = balance]
        ELSE Append(records, MonthlyRecord(recordId, id, ym.year, ym.month, balance))

\* data.logs.push({... operationType: 'balance_change'}) of updateAccount
updateAccountBalanceLog(id, oldAccount, newAccount, updates, ym, logId) ==
    RecordLog(logId, id, newAccount.name, ym.year, ym.month,
              oldAccount.balance, updates.balance, clock, "balance_change")

\* Variant: the log of an edit carries the name the account had before.
updateAccountEditLogOldName(id, oldAccount, newAccount, ym, logId) ==
    RecordLog(logId, id, oldAccount.name, ym.year, ym.month,
              oldAccount.balance, newAccount.balance, clock, "account_edit")

\* data.logs.push({... operationType: 'account_edit'})
updateAccountEditLog(id, oldAccount, newAccount, ym, logId) ==
    RecordLog(logId, id, newAccount.name, ym.year, ym.month,
              oldAccount.balance, newAccount.balance, clock, "account_edit")

updateAccount(id, updates) ==
    LET data == loadData
        index == findAccount(data.accounts, id)
    IN  IF index # 0
        THEN LET oldAccount == data.accounts[index]
                 newAccount == Spread(oldAccount, updates)
                 accounts == [data.accounts EXCEPT ![index] = newAccount]
                 ym == getCurrentYearMonth
                 bc == balanceChanged(updates, oldAccount)
                 ic == infoChanged(updates, oldAccount)
                 newRecord == bc /\ findRecord(data.records, id, ym.year, ym.month) = 0
                 n1 == IF newRecord THEN 1 ELSE 0
                 n2 == IF bc THEN n1 + 1 ELSE n1
                 n3 == IF ic THEN n2 + 1 ELSE n2
                 records == IF bc
                            THEN updateAccountRecords(data.records, id, ym, updates.balance, generateId(n1))
                            ELSE data.records
                 logs1 == IF bc
                          THEN Append(data.logs, updateAccountBalanceLog(id, oldAccount, newAccount, updates, ym, generateId(n2)))
                          ELSE data.logs
                 logs == IF ic
                         THEN Append(logs1, updateAccountEditLog(id, oldAccount, newAccount, ym, generateId(n3)))
                         ELSE logs1
             IN  /\ storage' = saveData([data EXCEPT !.accounts = accounts, !.records = records, !.logs = logs])
                 /\ defaultState' = Shared(accounts, records, logs)
                 /\ idSeq' = idSeq + n3
                 /\ op' = [name |-> "updateAccount", args |-> <<id, updates>>, ret |-> "account"]
                 /\ UNCHANGED clock
        ELSE /\ op' = [name |-> "updateAccount", args |-> <<id, updates>>, ret |-> "null"]
             /\ UNCHANGED <<storage, defaultState, idSeq, clock>>

\* ---------------------------------------------------------- deleteAccount
\* data.records.filter(r => r.accountId !== id), data.logs.filter(l => l.accountId !== id)
notOfAccount(items, id) == SelectSeq(items, LAMBDA x : x.accountId # id)

deleteAccount(id) ==
    LET data == loadData
        index == findAccount(data.accounts, id)
    IN  IF index # 0
        THEN LET accounts == Splice(data.accounts, index)
                 records == notOfAccount(data.records, id)
                 logs == notOfAccount(data.logs, id)
             IN  /\ storage' = saveData([data EXCEPT !.accounts = accounts, !.records = records, !.logs = logs])
                 \* splice works in place; records and logs are rebound to new arrays
                 /\ defaultState' = Shared(accounts, data.records, data.logs)
                 /\ op' = [name |-> "deleteAccount", args |-> <<id>>, ret |-> "true"]
                 /\ UNCHANGED <<idSeq, clock>>
        ELSE /\ op' = [name |-> "deleteAccount", args |-> <<id>>, ret |-> "false"]
             /\ UNCHANGED <<storage, defaultState, idSeq, clock>>

\* ------------------------------------------------------- setMonthlyRecord
\* Variant: the old balance is the account's baseline even when the month has a record.
setMonthlyRecordOldBalanceBaseline(accounts, records, accountId, year, month) ==
    LET account == findAccount(accounts, accountId)
    IN  IF account # 0 /\ accounts[account].balance # 0 THEN accounts[account].balance
        ELSE 0

\* existingRecord ? existingRecord.balance : (account?.balance || 0)
setMonthlyRecordOldBalance(accounts, records, accountId, year, month) ==
    LET account == findAccount(accounts, accountId)
        existingRecord == findRecord(records, accountId, year, month)
    IN  IF existingRecord # 0 THEN records[existingRecord].balance
        ELSE IF account # 0 /\ accounts[account].balance # 0 THEN accounts[account].balance
        ELSE 0

\* if (oldBalance !== balance && account)
setMonthlyRecordLogs(logs, accounts, accountId, year, month, oldBalance, balance, logId) ==
    LET account == findAccount(accounts, accountId)
    IN  IF oldBalance # balance /\ account # 0
        THEN Append(logs, RecordLog(logId, accountId, accounts[account].name, year, month,
                                    oldBalance, balance, clock, "balance_change"))
        ELSE logs

\* Variant: the record is pushed even when the month already has one.
setMonthlyRecordRecordsAlways(records, accountId, year, month, balance, recordId) ==
    Append(records, MonthlyRecord(recordId, accountId, year, month, balance))

\* if (existingRecord) existingRecord.balance = balance; else data.records.push(newRecord)
setMonthlyRecordRecords(records, accountId, year, month, balance, recordId) ==
    LET existingRecord == findRecord(records, accountId, year, month)
    IN  IF existingRecord # 0
        THEN [records EXCEPT ![existingRecord].balance = balance]
        ELSE Append(records, MonthlyRecord(recordId, accountId, year, month, balance))

setMonthlyRecord(accountId, year, month, balance) ==
    LET data == loadData
        oldBalance == setMonthlyRecordOldBalance(data.accounts, data.records, accountId, year, month)
        logs == setMonthlyRecordLogs(data.logs, data.accounts, accountId, year, month,
                                     oldBalance, balance, generateId(1))
        n1 == Len(logs) - Len(data.logs)
        records == setMonthlyRecordRecords(data.records, accountId, year, month, balance, generateId(n1 + 1))
        n2 == n1 + (Len(records) - Len(data.records))
    IN  /\ storage' = saveData([data EXCEPT !.records = records, !.logs = logs])
        /\ defaultState' = Shared(data.accounts, records, logs)
        /\ idSeq' = idSeq + n2
        /\ op' = [name |-> "setMonthlyRecord", args |-> <<accountId, year, month, balance>>, ret |-> "record"]
        /\ UNCHANGED clock

\* ------------------------------------ deleteMonthlyRecord, deleteRecordLog
deleteMonthlyRecord(recordId) ==
    LET data == loadData
        index == FindIndex({i \in 1..Len(data.records) : data.records[i].id = recordId})
    IN  IF index # 0
        THEN LET records == Splice(data.records, index)
             IN  /\ storage' = saveData([data EXCEPT !.records = records])
                 /\ defaultState' = Shared(data.accounts, records, data.logs)
                 /\ op' = [name |-> "deleteMonthlyRecord", args |-> <<recordId>>, ret |-> "true"]
                 /\ UNCHANGED <<idSeq, clock>>
        ELSE /\ op' = [name |-> "deleteMonthlyRecord", args |-> <<recordId>>, ret |-> "false"]
             /\ UNCHANGED <<storage, defaultState, idSeq, clock>>

deleteRecordLog(logId) ==
    LET data == loadData
        index == FindIndex({i \in 1..Len(data.logs) : data.logs[i].id = logId})
    IN  IF index # 0
        THEN LET logs == Splice(data.logs, index)
             IN  /\ storage' = saveData([data EXCEPT !.logs = logs])
                 /\ defaultState' = Shared(data.accounts, data.records, logs)
                 /\ op' = [name |-> "deleteRecordLog", args |-> <<logId>>, ret |-> "true"]
                 /\ UNCHANGED <<idSeq, clock>>
        ELSE /\ op' = [name |-> "deleteRecordLog", args |-> <<logId>>, ret |-> "false"]
             /\ UNCHANGED <<storage, defaultState, idSeq, clock>>

\* --------------------------------------------------------- updateSettings
updateSettings(settings) ==
    LET data == loadData
    IN  /\ storage' = saveData([data EXCEPT !.settings = Spread(data.settings, settings)])
        /\ op' = [name |-> "updateSettings", args |-> <<settings>>, ret |-> "void"]
        /\ UNCHANGED <<defaultState, idSeq, clock>>

\* ------------------------------------------------------------- importData
\* Variant: the records field is not required.
importDataValidNoRecords(payload) ==
    payload.parsed /\ "accounts" \in DOMAIN payload.data

\* A payload is [parsed |-> whether JSON.parse succeeds, data |-> the parsed object].
\* if (!data.accounts || !data.records) return false
importDataValid(payload) ==
    payload.parsed /\ "accounts" \in DOMAIN payload.data /\ "records" \in DOMAIN payload.data

\* data.logs || []
payloadLogs(data) == IF "logs" \in DOMAIN data THEN data.logs ELSE <<>>

\* data.settings, spread into an object literal: nothing when absent
payloadSettings(data) == IF "settings" \in DOMAIN data THEN data.settings ELSE <<>>

\* Variant: the payload's settings are laid over the current settings.
importWholeKeepingSettings(data) ==
    Spread([f \in {"accounts", "records"} \cap DOMAIN data |-> data[f]],
           [logs     |-> payloadLogs(data),
            settings |-> Spread(loadData.settings, payloadSettings(data)),
            version  |-> CURRENT_VERSION])

\* No target period: the document is replaced by the payload. A property whose
\* value is undefined is not serialized.
importWhole(data) ==
    Spread([f \in {"accounts", "records"} \cap DOMAIN data |-> data[f]],
           [logs     |-> payloadLogs(data),
            settings |-> Spread(defaultState.settings, payloadSettings(data)),
            version  |-> CURRENT_VERSION])

\* items.filter(x => !(x.year === targetYear && x.month === targetMonth))
notInPeriod(items, targetYear, targetMonth) ==
    SelectSeq(items, LAMBDA x : ~(x.year = targetYear /\ x.month = targetMonth))

\* data.records.map(r => ({...r, id: generateId(), year: targetYear, month: targetMonth}))
importedRecords(records, targetYear, targetMonth, used) ==
    [i \in 1..Len(records) |->
        Spread(records[i], [id |-> generateId(used + i), year |-> targetYear, month |-> targetMonth])]

importedLogs(logs, targetYear, targetMonth, used) ==
    [i \in 1..Len(logs) |->
        Spread(logs[i], [id |-> generateId(used + i), year |-> targetYear, month |-> targetMonth,
                         timestamp |-> clock])]

\* Variant: every imported account is new.
newAccountsAll(existing, imported) == imported

\* data.accounts.filter(a => !existingAccountIds.has(a.id))
newAccounts(existing, imported) ==
    SelectSeq(imported, LAMBDA a : a.id \notin {e.id : e \in Range(existing)})

importData(payload, target, mergeMode) ==
    IF ~importDataValid(payload)
    THEN \* return false, from the check or from the catch of a parse error
         /\ op' = [name |-> "importData", args |-> <<payload, target, mergeMode>>, ret |-> "false"]
         /\ UNCHANGED <<storage, defaultState, idSeq, clock>>
    ELSE LET data == payload.data
             currentData == loadData
         IN  IF target = <<>>
             THEN /\ storage' = saveData(importWhole(data))
                  /\ op' = [name |-> "importData", args |-> <<payload, target, mergeMode>>, ret |-> "true"]
                  /\ UNCHANGED <<defaultState, idSeq, clock>>
             ELSE IF "records" \notin DOMAIN data
             THEN \* data.records.map throws before anything is changed; the catch returns false
                  /\ op' = [name |-> "importData", args |-> <<payload, target, mergeMode>>, ret |-> "false"]
                  /\ UNCHANGED <<storage, defaultState, idSeq, clock>>
             ELSE LET keptRecords == IF mergeMode = "overwrite"
                                     THEN notInPeriod(currentData.records, target[1], target[2])
                                     ELSE currentData.records
                      keptLogs == IF mergeMode = "overwrite"
                                  THEN notInPeriod(currentData.logs, target[1], target[2])
                                  ELSE currentData.logs
                      n1 == Len(data.records)
                      n2 == n1 + Len(payloadLogs(data))
                      records == keptRecords \o importedRecords(data.records, target[1], target[2], 0)
                      logs == keptLogs \o importedLogs(payloadLogs(data), target[1], target[2], n1)
                  IN  IF "accounts" \notin DOMAIN data
                      THEN \* data.accounts.filter throws after the pushes and before saveData
                           /\ defaultState' = IF mergeMode = "overwrite"
                                              THEN defaultState
                                              ELSE Shared(currentData.accounts, records, logs)
                           /\ idSeq' = idSeq + n2
                           /\ op' = [name |-> "importData", args |-> <<payload, target, mergeMode>>, ret |-> "false"]
                           /\ UNCHANGED <<storage, clock>>
                      ELSE LET accounts == currentData.accounts
                                             \o newAccounts(currentData.accounts, data.accounts)
                           IN  /\ storage' = saveData([currentData EXCEPT !.accounts = accounts,
                                                          !.records = records, !.logs = logs])
                               \* overwrite rebinds records and logs before pushing; merge pushes in place
                               /\ defaultState' = IF mergeMode = "overwrite"
                                                  THEN Shared(accounts, currentData.records, currentData.logs)
                                                  ELSE Shared(accounts, records, logs)
                               /\ idSeq' = idSeq + n2
                               /\ op' = [name |-> "importData", args |-> <<payload, target, mergeMode>>, ret |-> "true"]
                               /\ UNCHANGED clock

\* -------------------------------------------------- copyLastMonthBalances
\* The loop body, for the records of last month from the i-th on; used counts
\* the identifiers generated so far.
RECURSIVE copyLoop(_, _, _, _, _, _)
copyLoop(records, lastMonthRecords, i, year, month, used) ==
    IF i > Len(lastMonthRecords) THEN <<records, used>>
    ELSE LET record == lastMonthRecords[i]
             existingIndex == findRecord(records, record.accountId, year, month)
         IN  IF existingIndex # 0
             THEN copyLoop([records EXCEPT ![existingIndex].balance = record.balance],
                           lastMonthRecords, i + 1, year, month, used)
             ELSE copyLoop(Append(records, MonthlyRecord(generateId(used + 1), record.accountId,
                                                         year, month, record.balance)),
                           lastMonthRecords, i + 1, year, month, used + 1)

lastPeriod(year, month) == IF month - 1 = 0 THEN <<year - 1, 12>> ELSE <<year, month - 1>>

copyLastMonthBalances(year, month) ==
    LET data == loadData
        last == lastPeriod(year, month)
        lastMonthRecords == SelectSeq(data.records, LAMBDA r : r.year = last[1] /\ r.month = last[2])
        result == copyLoop(data.records, lastMonthRecords, 1, year, month, 0)
    IN  /\ storage' = saveDataCalculator([data EXCEPT !.records = result[1]])
        /\ defaultState' = Shared(data.accounts, result[1], data.logs)
        /\ idSeq' = idSeq + result[2]
        /\ op' = [name |-> "copyLastMonthBalances", args |-> <<year, month>>,
                  ret |-> IF setItemThrows THEN "throws" ELSE "void"]
        /\ UNCHANGED clock

\* ------------------------------------------------------------------ reads
\* data.records.filter(r => r.year === year && r.month === month)
recordsOfMonth(records, year, month) ==
    SelectSeq(records, LAMBDA r : r.year = year /\ r.month = month)

getMonthlyRecordsByMonth(year, month) == recordsOfMonth(loadData.records, year, month)

\* Variant: the oldest log comes first.
insertByTimestampAscending(sorted, x) ==
    LET before == {i \in 1..Len(sorted) : sorted[i].timestamp <= x.timestamp}
        k == IF before = {} THEN 0 ELSE CHOOSE i \in before : \A j \in before : j <= i
    IN  SubSeq(sorted, 1, k) \o <<x>> \o SubSeq(sorted, k + 1, Len(sorted))

\* Array.prototype.sort((a, b) => b.timestamp - a.timestamp) is stable: x goes
\* behind every item that is not older than it.
insertByTimestamp(sorted, x) ==
    LET before == {i \in 1..Len(sorted) : sorted[i].timestamp >= x.timestamp}
        k == IF before = {} THEN 0 ELSE CHOOSE i \in before : \A j \in before : j <= i
    IN  SubSeq(sorted, 1, k) \o <<x>> \o SubSeq(sorted, k + 1, Len(sorted))

RECURSIVE sortByTimestampDesc(_)
sortByTimestampDesc(logs) ==
    IF logs = <<>> THEN <<>>
    ELSE insertByTimestamp(sortByTimestampDesc(SubSeq(logs, 1, Len(logs) - 1)), logs[Len(logs)])

\* getRecordLogs(year, month?): month is <<>> when not given, <<m>> otherwise
logsOfPeriod(logs, year, month) ==
    sortByTimestampDesc(
        SelectSeq(logs,
                  LAMBDA l : IF month # <<>> THEN l.year = year /\ l.month = month[1]
                             ELSE l.year = year))

getRecordLogs(year, month) == logsOfPeriod(loadData.logs, year, month)

\* data.logs.filter(l => l.accountId === accountId).sort(...)
logsOfAccount(logs, accountId) ==
    sortByTimestampDesc(SelectSeq(logs, LAMBDA l : l.accountId = accountId))

getRecordLogsByAccount(accountId) == logsOfAccount(loadData.logs, accountId)

\* ------------------------------------------------------ exportDataByRange
\* Variant: the end of the range is excluded.
inRangeBeforeEnd(item, startYear, startMonth, endYear, endMonth) ==
    /\ item.year * 100 + item.month >= startYear * 100 + startMonth
    /\ item.year * 100 + item.month < endYear * 100 + endMonth

\* recordKey >= startKey && recordKey <= endKey
inRange(item, startYear, startMonth, endYear, endMonth) ==
    /\ item.year * 100 + item.month >= startYear * 100 + startMonth
    /\ item.year * 100 + item.month <= endYear * 100 + endMonth

\* Variant: the logs are exported whole.
exportDataByRangeAllLogs(startYear, startMonth, endYear, endMonth) ==
    LET data == loadData
    IN  [parsed |-> TRUE,
         data |-> [accounts |-> data.accounts,
                   records |-> SelectSeq(data.records,
                                  LAMBDA r : inRange(r, startYear, startMonth, endYear, endMonth)),
                   logs |-> data.logs,
                   version |-> CURRENT_VERSION]]

\* The JSON text returned, as what JSON.parse makes of it.
exportDataByRange(startYear, startMonth, endYear, endMonth) ==
    LET data == loadData
    IN  [parsed |-> TRUE,
         data |-> [accounts |-> data.accounts,
                   records |-> SelectSeq(data.records,
                                  LAMBDA r : inRange(r, startYear, startMonth, endYear, endMonth)),
                   logs |-> SelectSeq(data.logs,
                                  LAMBDA l : inRange(l, startYear, startMonth, endYear, endMonth)),
                   version |-> CURRENT_VERSION]]

\* ------------------------------------------------------------- aggregation
\* Math.abs
Abs(x) == IF x < 0 THEN 0 - x ELSE x

\* Variant: the baseline balance, whatever the records of the month.
resolvedBalanceBaseline(account, records) == account.balance

\* const record = records.find(r => r.accountId === account.id);
\* const balance = record ? record.balance : account.balance;
resolvedBalance(account, records) ==
    LET record == FindIndex({i \in 1..Len(records) : records[i].accountId = account.id})
    IN  IF record # 0 THEN records[record].balance ELSE account.balance

\* The loop of calculateTotalAssets from account i on, total so far.
RECURSIVE totalAssetsLoop(_, _, _, _)
totalAssetsLoop(accounts, records, i, total) ==
    IF i > Len(accounts) THEN total
    ELSE LET account == accounts[i]
             balance == resolvedBalance(account, records)
         IN  IF account.isHidden THEN totalAssetsLoop(accounts, records, i + 1, total)
             ELSE IF account.type = "credit"
                  THEN totalAssetsLoop(accounts, records, i + 1,
                                       IF balance < 0 THEN total + Abs(balance) ELSE total)
             ELSE IF account.type = "debt"
                  THEN totalAssetsLoop(accounts, records, i + 1, total)
             ELSE totalAssetsLoop(accounts, records, i + 1, total + balance)

\* Variant: the accounts not included in the total are left out.
calculateTotalAssetsIncluded(year, month) ==
    totalAssetsLoop(SelectSeq(getAllAccounts, LAMBDA a : a.includeInTotal),
                    getMonthlyRecordsByMonth(year, month), 1, 0)

calculateTotalAssets(year, month) ==
    totalAssetsLoop(getAllAccounts, getMonthlyRecordsByMonth(year, month), 1, 0)

\* The loop of calculateTotalLiabilities from account i on, total so far.
RECURSIVE totalLiabilitiesLoop(_, _, _, _)
totalLiabilitiesLoop(accounts, records, i, total) ==
    IF i > Len(accounts) THEN total
    ELSE LET account == accounts[i]
             balance == resolvedBalance(account, records)
             total1 == IF account.type = "credit" /\ balance > 0 THEN total + balance ELSE total
             total2 == IF account.type = "debt" THEN total1 + Abs(balance) ELSE total1
         IN  IF account.isHidden THEN totalLiabilitiesLoop(accounts, records, i + 1, total)
             ELSE totalLiabilitiesLoop(accounts, records, i + 1, total2)

calculateTotalLiabilities(year, month) ==
    totalLiabilitiesLoop(getAllAccounts, getMonthlyRecordsByMonth(year, month), 1, 0)

calculateNetWorth(year, month) ==
    calculateTotalAssets(year, month) - calculateTotalLiabilities(year, month)

\* lastMonth = month - 1, or December of the year before
previousMonth(year, month) == IF month - 1 = 0 THEN <<year - 1, 12>> ELSE <<year, month - 1>>

\* Variant: the change is divided by the prior net worth, sign included.
changePercentSigned(change, lastNetWorth) ==
    IF lastNetWorth # 0
    THEN [num |-> change * 100, den |-> lastNetWorth]
    ELSE [num |-> 0, den |-> 1]

\* lastNetWorth !== 0 ? (change / Math.abs(lastNetWorth)) * 100 : 0, as the
\* fraction num / den; den = 0 stands for a division by zero.
changePercent(change, lastNetWorth) ==
    IF lastNetWorth # 0
    THEN [num |-> change * 100, den |-> Abs(lastNetWorth)]
    ELSE [num |-> 0, den |-> 1]

getMonthlyNetWorth(year, month) ==
    LET totalAssets == calculateTotalAssets(year, month)
        totalLiabilities == calculateTotalLiabilities(year, month)
        netWorth == totalAssets - totalLiabilities
        last == previousMonth(year, month)
        lastNetWorth == calculateNetWorth(last[1], last[2])
        change == netWorth - lastNetWorth
    IN  [year |-> year, month |-> month, netWorth |-> netWorth,
         totalAssets |-> totalAssets, totalLiabilities |-> totalLiabilities,
         change |-> change, changePercent |-> changePercent(change, lastNetWorth)]

\* Variant: the first month of the year that has a record.
getFirstRecordedMonth(year) ==
    LET months == {r.month : r \in {x \in Range(loadData.records) : x.year = year}}
    IN  IF months = {} THEN 0
        ELSE CHOOSE m \in months : \A n \in months : m <= n

\* Math.max(...months) over the records of the year; 0 when there are none
getLastRecordedMonth(year) ==
    LET months == {r.month : r \in {x \in Range(loadData.records) : x.year = year}}
    IN  IF months = {} THEN 0
        ELSE CHOOSE m \in months : \A n \in months : n <= m

getYearlyNetWorth(year) ==
    LET lastMonth == IF getLastRecordedMonth(year) # 0 THEN getLastRecordedMonth(year) ELSE 12
        totalAssets == calculateTotalAssets(year, lastMonth)
        totalLiabilities == calculateTotalLiabilities(year, lastMonth)
        netWorth == totalAssets - totalLiabilities
        lastYearNetWorth == calculateNetWorth(year - 1, 12)
        change == netWorth - lastYearNetWorth
    IN  [year |-> year, netWorth |-> netWorth,
         totalAssets |-> totalAssets, totalLiabilities |-> totalLiabilities,
         lastRecordedMonth |-> lastMonth,
         change |-> change, changePercent |-> changePercent(change, lastYearNetWorth)]

\* The loop of calculateLoanOut from account i on, total so far.
RECURSIVE loanOutLoop(_, _, _, _)
loanOutLoop(accounts, records, i, total) ==
    IF i > Len(accounts) THEN total
    ELSE IF accounts[i].type = "loan"
         THEN loanOutLoop(accounts, records, i + 1, total + resolvedBalance(accounts[i], records))
         ELSE loanOutLoop(accounts, records, i + 1, total)

calculateLoanOut(year, month) ==
    loanOutLoop(getAllAccounts, getMonthlyRecordsByMonth(year, month), 1, 0)

\* The loop of calculateDebtIn from account i on, total so far.
RECURSIVE debtInLoop(_, _, _, _)
debtInLoop(accounts, records, i, total) ==
    IF i > Len(accounts) THEN total
    ELSE IF accounts[i].type = "debt"
         THEN debtInLoop(accounts, records, i + 1, total + Abs(resolvedBalance(accounts[i], records)))
         ELSE debtInLoop(accounts, records, i + 1, total)

calculateDebtIn(year, month) ==
    debtInLoop(getAllAccounts, getMonthlyRecordsByMonth(year, month), 1, 0)

\* ---------------------------------------------------------------- history
\* The UTF-16 code units of n.toString() for a natural number n.
RECURSIVE toString(_)
toString(n) == IF n < 10 THEN <<48 + n>> ELSE toString(n \div 10) \o <<48 + (n % 10)>>

\* text.padStart(2, '0')
padStart2(text) == IF Len(text) < 2 THEN <<48>> \o text ELSE text

\* `${year}-${month.toString().padStart(2, '0')}`; 45 is the code unit of '-'
monthKey(year, month) == toString(year) \o <<45>> \o padStart2(toString(month))

\* Number(text) of a text of decimal digits
RECURSIVE Number(_)
Number(text) ==
    IF text = <<>> THEN 0
    ELSE Number(SubSeq(text, 1, Len(text) - 1)) * 10 + (text[Len(text)] - 48)

\* monthKey.split('-').map(Number)
splitMonthKey(key) ==
    LET dash == CHOOSE i \in 1..Len(key) : key[i] = 45
    IN  <<Number(SubSeq(key, 1, dash - 1)), Number(SubSeq(key, dash + 1, Len(key)))>>

\* The order of Array.prototype.sort() without a comparator: by code units,
\* a proper prefix before the longer text.
RECURSIVE stringLess(_, _)
stringLess(a, b) ==
    IF b = <<>> THEN FALSE
    ELSE IF a = <<>> THEN TRUE
    ELSE IF a[1] # b[1] THEN a[1] < b[1]
    ELSE stringLess(Tail(a), Tail(b))

\* Array.from(set).sort() of a set of texts
RECURSIVE sortStrings(_)
sortStrings(set) ==
    IF set = {} THEN <<>>
    ELSE LET least == CHOOSE x \in set : \A y \in set \ {x} : stringLess(x, y)
         IN  <<least>> \o sortStrings(set \ {least})

\* array.slice(-count)
sliceLast(array, count) ==
    IF count = 0 \/ count >= Len(array) THEN array
    ELSE SubSeq(array, Len(array) - count + 1, Len(array))

\* The default of the parameter months of getNetWorthHistory.
DefaultMonths == 12

getNetWorthHistory(months) ==
    LET now == getCurrentYearMonth
        monthSet == {monthKey(r.year, r.month) : r \in Range(loadData.records)}
                    \cup {monthKey(now.year, now.month)}
        sortedMonths == sliceLast(sortStrings(monthSet), months)
    IN  [i \in 1..Len(sortedMonths) |->
            getMonthlyNetWorth(splitMonthKey(sortedMonths[i])[1], splitMonthKey(sortedMonths[i])[2])]

\* Array.from(yearSet).sort() compares the years as texts.
getYearlyNetWorthHistory ==
    LET yearSet == {r.year : r \in Range(loadData.records)} \cup {getCurrentYearMonth.year}
        sortedYears == sortStrings({toString(year) : year \in yearSet})
    IN  [i \in 1..Len(sortedYears) |->
            LET yearlyData == getYearlyNetWorth(Number(sortedYears[i]))
            IN  [year |-> yearlyData.year, netWorth |-> yearlyData.netWorth,
                 totalAssets |-> yearlyData.totalAssets,
                 totalLiabilities |-> yearlyData.totalLiabilities,
                 change |-> yearlyData.change, changePercent |-> yearlyData.changePercent]]

\* ---------------------------------------------------------- input domains
\* Identifiers that belong to no stored item: a caller's stale or mistyped one.
UnknownId == "none"
\* An identifier that was not generated in this session (it comes from another device).
ForeignId == "ext"

\* Account identifiers a caller may pass: those of the stored accounts and an unknown one.
AccountArgIds == {a.id : a \in Range(loadData.accounts)} \cup {UnknownId}
RecordArgIds == {r.id : r \in Range(loadData.records)} \cup {UnknownId}
LogArgIds == {l.id : l \in Range(loadData.logs)} \cup {UnknownId}

Balances == {0, 1}

\* Periods a caller may name: the months the clock passes through.
Periods == {<<2023 + (MonthIndex(t) \div 12), (MonthIndex(t) % 12) + 1>> :
                t \in 0..MaxClock}

AccountInputs ==
    {[name |-> "a", type |-> "cash", icon |-> "banknote", balance |-> b,
      includeInTotal |-> TRUE, isHidden |-> FALSE, note |-> ""] : b \in Balances}

AccountUpdates ==
    {[balance |-> b] : b \in Balances}
    \cup {[name |-> "b"], [name |-> "b", balance |-> 1], [id |-> ForeignId]}

SettingsUpdates == {[theme |-> "dark", hideBalance |-> TRUE]}

\* Import payloads: an account of another device under two descriptions, its
\* records of two months, one log, settings.
ForeignAccount(name, balance) ==
    [id |-> ForeignId, name |-> name, type |-> "cash", icon |-> "banknote", balance |-> balance,
     includeInTotal |-> TRUE, isHidden |-> FALSE, note |-> ""]

PayloadRecord1 == MonthlyRecord("r1", ForeignId, 2023, 12, 1)
PayloadRecord2 == MonthlyRecord("r2", ForeignId, 2024, 1, 0)
PayloadLog == RecordLog("l1", ForeignId, "x", 2023, 12, 0, 1, 0, "balance_change")

Payloads ==
    {[parsed |-> FALSE, data |-> <<>>],
     [parsed |-> TRUE, data |-> [records |-> <<PayloadRecord1>>]],
     [parsed |-> TRUE, data |-> [accounts |-> <<ForeignAccount("x", 1)>>]],
     [parsed |-> TRUE, data |-> [accounts |-> <<ForeignAccount("x", 1)>>,
                                 records |-> <<PayloadRecord1>>]],
     [parsed |-> TRUE, data |-> [accounts |-> <<ForeignAccount("x", 1), ForeignAccount("y", 0)>>,
                                 records |-> <<PayloadRecord1, PayloadRecord2>>,
                                 logs |-> <<PayloadLog>>,
                                 settings |-> [theme |-> "green"]]]}

\* No target period, or a target period.
Targets == {<<>>} \cup Periods

MergeModes == {"merge", "overwrite"}

\* ------------------------------------------------------------- RecordPage
\* The state of RecordPage after its first render: the useState initial values,
\* the effect of the first render scheduled, no timer.
RecordPageMount ==
    [recordMode |-> "monthly", year |-> 2023, month |-> 12,
     accounts |-> <<>>, balances |-> <<>>,
     netWorth |-> 0, totalAssets |-> 0, totalLiabilities |-> 0,
     hideBalance |-> FALSE, theme |-> "blue",
     effectPending |-> TRUE, timers |-> <<>>]

\* ------------------------------------------------------------------- Init
Init ==
    /\ storage = <<>>
    /\ defaultState = [accounts |-> <<>>, records |-> <<>>, logs |-> <<>>,
                       settings |-> defaultSettings, version |-> CURRENT_VERSION]
    /\ idSeq = 0
    /\ clock = 0
    /\ steps = 0
    /\ op = [name |-> "init", args |-> <<>>, ret |-> "void"]
    /\ setItemThrows = FALSE
    /\ page = RecordPageMount

\* Time passes between two calls.
Tick ==
    /\ clock < MaxClock
    /\ clock' = clock + 1
    /\ op' = [name |-> "tick", args |-> <<>>, ret |-> "void"]
    /\ UNCHANGED <<storage, defaultState, idSeq>>

\* One more call or tick of the session.
Step == steps < MaxSteps /\ steps' = steps + 1 /\ UNCHANGED <<setItemThrows, page>>

\* clearAllData: localStorage.removeItem
clearAllData ==
    /\ storage' = <<>>
    /\ op' = [name |-> "clearAllData", args |-> <<>>, ret |-> "void"]
    /\ UNCHANGED <<defaultState, idSeq, clock>>

Next ==
    \/ Step /\ Tick
    \/ Step /\ clearAllData
    \/ \E account \in AccountInputs : Step /\ addAccount(account)
    \/ \E id \in AccountArgIds, updates \in AccountUpdates : Step /\ updateAccount(id, updates)
    \/ \E id \in AccountArgIds : Step /\ deleteAccount(id)
    \/ \E id \in AccountArgIds, p \in Periods, b \in Balances :
            Step /\ setMonthlyRecord(id, p[1], p[2], b)
    \/ \E id \in RecordArgIds : Step /\ deleteMonthlyRecord(id)
    \/ \E id \in LogArgIds : Step /\ deleteRecordLog(id)
    \/ \E settings \in SettingsUpdates : Step /\ updateSettings(settings)
    \/ \E payload \in Payloads, target \in Targets, mergeMode \in MergeModes :
            Step /\ importData(payload, target, mergeMode)
    \/ \E start \in Periods, end \in Periods :
            Step /\ importData(exportDataByRange(start[1], start[2], end[1], end[2]), <<>>, "merge")
    \/ \E p \in Periods : Step /\ copyLastMonthBalances(p[1], p[2])

Spec == Init /\ [][Next]_vars

\* -------------------------------------------------- storage that fails
\* From now on localStorage.setItem throws: the quota is exceeded or the storage
\* has become unavailable.
setItemFails ==
    /\ ~setItemThrows
    /\ setItemThrows' = TRUE
    /\ op' = [name |-> "setItemFails", args |-> <<>>, ret |-> "void"]
    /\ UNCHANGED <<storage, defaultState, idSeq, clock, steps, page>>

NextStorageFails == Next \/ setItemFails

SpecStorageFails == Init /\ [][NextStorageFails]_vars

\* ------------------------------------------------- the reading functions
\* Stored documents the reading functions are applied to: one account of every
\* type, sign of balance and visibility, alone or beside a second account, with
\* records in any of three consecutive months, with or without logs.
ReadTypes == {"cash", "credit", "debt", "loan"}

ReadBalances == {0 - 1, 0, 2}

ReadPeriods == <<<<2023, 11>>, <<2023, 12>>, <<2024, 1>>>>

ReadYears == {2023, 2024, 2025}

ReadAccount(id, type, balance, includeInTotal, isHidden) ==
    [id |-> id, name |-> "a", type |-> type, icon |-> "banknote", balance |-> balance,
     includeInTotal |-> includeInTotal, isHidden |-> isHidden, note |-> ""]

ReadAccounts ==
    LET first == {ReadAccount("1", t, b, TRUE, h) :
                    t \in ReadTypes, b \in ReadBalances, h \in BOOLEAN}
        second == {ReadAccount("2", "cash", 2, FALSE, FALSE),
                   ReadAccount("2", "debt", 0 - 1, FALSE, FALSE)}
    IN  {<<a>> : a \in first} \cup {<<a, b>> : a \in first, b \in second}

\* The number of consecutive months, from January 2023 on, of the longest history.
MaxHistory == 13

\* A record of the first account in every month of the longest history.
LongHistory ==
    [i \in 1..MaxHistory |->
        MonthlyRecord(ToString(i), "1", 2023 + ((i - 1) \div 12), ((i - 1) % 12) + 1, 2)]

\* Records of the first account in the months of a set, all with one balance.
ReadRecords ==
    {SelectSeq([i \in 1..Len(ReadPeriods) |->
                   MonthlyRecord(ToString(i), "1", ReadPeriods[i][1], ReadPeriods[i][2], b)],
               LAMBDA r : <<r.year, r.month>> \in months) :
        months \in SUBSET Range(ReadPeriods), b \in {0 - 1, 2}}
    \cup {LongHistory}

ReadLogs ==
    {<<>>,
     <<RecordLog("l1", "1", "a", 2023, 11, 0, 2, 0, "account_create"),
       RecordLog("l2", "1", "a", 2024, 1, 2, 0 - 1, 1, "balance_change")>>,
     <<RecordLog("l1", "1", "a", 2023, 11, 0, 2, 0, "account_create"),
       RecordLog("l2", "2", "a", 2023, 11, 0, 2, 1, "account_create"),
       RecordLog("l3", "1", "a", 2023, 11, 2, 0 - 1, 2, "balance_change"),
       RecordLog("l4", "1", "a", 2023, 12, 2, 0, 2, "balance_change")>>}

ReadDocuments ==
    {document \in {[accounts |-> accounts, records |-> records, logs |-> logs,
                    settings |-> defaultSettings, version |-> CURRENT_VERSION] :
                      accounts \in ReadAccounts, records \in ReadRecords, logs \in ReadLogs} :
        \A i \in 1..Len(document.logs) :
            \E j \in 1..Len(document.accounts) :
                document.accounts[j].id = document.logs[i].accountId}

InitRead ==
    /\ setItemThrows = FALSE
    /\ page = RecordPageMount
    /\ storage \in {saveData(document) : document \in ReadDocuments}
    /\ defaultState = [accounts |-> <<>>, records |-> <<>>, logs |-> <<>>,
                       settings |-> defaultSettings, version |-> CURRENT_VERSION]
    /\ idSeq = 0
    /\ clock = 0
    /\ steps = 0
    /\ op = [name |-> "init", args |-> <<>>, ret |-> "void"]

\* A call of a function that reads the document and writes nothing.
Read(name, args, ret) ==
    /\ op' = [name |-> name, args |-> args, ret |-> ret]
    /\ UNCHANGED <<storage, defaultState, idSeq, clock, steps, setItemThrows, page>>

NextRead ==
    \/ \E p \in Range(ReadPeriods) :
            Read("calculateTotalAssets", p, calculateTotalAssets(p[1], p[2]))
    \/ \E p \in Range(ReadPeriods) :
            Read("calculateTotalLiabilities", p, calculateTotalLiabilities(p[1], p[2]))
    \/ \E p \in Range(ReadPeriods) :
            Read("calculateNetWorth", p, calculateNetWorth(p[1], p[2]))
    \/ \E p \in Range(ReadPeriods) :
            Read("calculateLoanOut", p, calculateLoanOut(p[1], p[2]))
    \/ \E p \in Range(ReadPeriods) :
            Read("calculateDebtIn", p, calculateDebtIn(p[1], p[2]))
    \/ \E p \in Range(ReadPeriods) :
            Read("getMonthlyNetWorth", p, getMonthlyNetWorth(p[1], p[2]))
    \/ \E year \in ReadYears :
            Read("getYearlyNetWorth", <<year>>, getYearlyNetWorth(year))
    \/ \E year \in ReadYears, month \in {<<>>} \cup {<<p[2]>> : p \in Range(ReadPeriods)} :
            Read("getRecordLogs", <<year, month>>, getRecordLogs(year, month))
    \/ \E id \in {"1", "2", UnknownId} :
            Read("getRecordLogsByAccount", <<id>>, getRecordLogsByAccount(id))
    \/ Read("getNetWorthHistory", <<>>, getNetWorthHistory(DefaultMonths))
    \/ Read("getYearlyNetWorthHistory", <<>>, getYearlyNetWorthHistory)
    \/ \E start \in Range(ReadPeriods), end \in Range(ReadPeriods) :
            Read("exportDataByRange", <<start[1], start[2], end[1], end[2]>>,
                 exportDataByRange(start[1], start[2], end[1], end[2]))

SpecRead == InitRead /\ [][NextRead]_vars

\* ------------------------------------------------- RecordPage, the events
\* How many user events on the page a session holds.
MaxEvents == 4

\* data.records.find(r => r.accountId === accountId && r.year === year && r.month === month)
\* and the balance RecordPage shows for it: record ? record.balance : account.balance
shownBalance(account, year, month) ==
    LET record == findRecord(loadData.records, account.id, year, month)
    IN  IF record # 0 THEN loadData.records[record].balance ELSE account.balance

\* newBalances after the for loop over allAccounts: the last account of an id wins
newBalances(allAccounts, year, month) ==
    [id \in {allAccounts[i].id : i \in 1..Len(allAccounts)} |->
        LET last == CHOOSE i \in 1..Len(allAccounts) :
                        /\ allAccounts[i].id = id
                        /\ \A j \in 1..Len(allAccounts) : allAccounts[j].id = id => j <= i
        IN  shownBalance(allAccounts[last], year, month)]

\* RecordPage.loadData, run by the effect of a render with the state p: the
\* state it sets.
RecordPageLoadData(p) ==
    LET allAccounts == SelectSeq(getAllAccounts, LAMBDA a : ~a.isHidden)
    IN  IF p.recordMode = "monthly"
        THEN [p EXCEPT !.accounts = allAccounts,
                       !.balances = newBalances(allAccounts, p.year, p.month),
                       !.netWorth = calculateNetWorth(p.year, p.month),
                       !.totalAssets = calculateTotalAssets(p.year, p.month),
                       !.totalLiabilities = calculateTotalLiabilities(p.year, p.month)]
        ELSE LET lastMonth == IF getLastRecordedMonth(p.year) # 0
                              THEN getLastRecordedMonth(p.year) ELSE 12
                 yearlyData == getYearlyNetWorth(p.year)
             IN  [p EXCEPT !.accounts = allAccounts,
                           !.balances = newBalances(allAccounts, p.year, lastMonth),
                           !.netWorth = yearlyData.netWorth,
                           !.totalAssets = yearlyData.totalAssets,
                           !.totalLiabilities = yearlyData.totalLiabilities]

\* A user event on the page.
Event == steps < MaxEvents /\ steps' = steps + 1

\* A state update of an event handler: when year, month or recordMode changed,
\* the component renders again and the effect of that render is scheduled.
Rendered(p) ==
    [p EXCEPT !.effectPending =
        @ \/ <<p.year, p.month, p.recordMode>> # <<page.year, page.month, page.recordMode>>]

\* An action of the page that calls no repository function that writes.
PageOnly(p) ==
    /\ page' = p
    /\ UNCHANGED <<storage, defaultState, idSeq, clock, op, setItemThrows>>

\* useEffect(() => {...; loadData()}, [year, month, recordMode])
runEffect ==
    /\ page.effectPending
    /\ PageOnly([RecordPageLoadData(page) EXCEPT
                    !.hideBalance = loadData.settings.hideBalance,
                    !.theme = loadData.settings.theme,
                    !.effectPending = FALSE])
    /\ UNCHANGED steps

goToPrev ==
    /\ Event
    /\ PageOnly(Rendered(
            IF page.recordMode = "monthly"
            THEN IF page.month = 1
                 THEN [page EXCEPT !.year = @ - 1, !.month = 12]
                 ELSE [page EXCEPT !.month = @ - 1]
            ELSE [page EXCEPT !.year = @ - 1]))

goToNext ==
    /\ Event
    /\ PageOnly(Rendered(
            IF page.recordMode = "monthly"
            THEN IF page.month = 12
                 THEN [page EXCEPT !.year = @ + 1, !.month = 1]
                 ELSE [page EXCEPT !.month = @ + 1]
            ELSE [page EXCEPT !.year = @ + 1]))

handleSelectMonth(selectedYear, selectedMonth) ==
    /\ Event
    /\ PageOnly(Rendered([page EXCEPT !.year = selectedYear, !.month = selectedMonth]))

\* The two entries of the mode dropdown.
setRecordMode(mode) ==
    /\ Event
    /\ PageOnly(Rendered([page EXCEPT !.recordMode = mode]))

\* handleBalanceChange(accountId, value), value the text of the number numValue:
\* the write is synchronous, the refresh of the totals is a timer that keeps the
\* year and month of the render the handler belongs to.
handleBalanceChange(accountId, numValue) ==
    /\ Event
    /\ setMonthlyRecord(accountId, page.year, page.month, numValue)
    /\ page' = [page EXCEPT !.balances = Spread(@, [id \in {accountId} |-> numValue]),
                            !.timers = Append(@, <<page.year, page.month>>)]
    /\ UNCHANGED setItemThrows

\* The callback of the oldest setTimeout(..., 0), with the year and month it closed over.
runTimer ==
    /\ page.timers # <<>>
    /\ LET year == page.timers[1][1]
           month == page.timers[1][2]
       IN  PageOnly([page EXCEPT !.netWorth = calculateNetWorth(year, month),
                                 !.totalAssets = calculateTotalAssets(year, month),
                                 !.totalLiabilities = calculateTotalLiabilities(year, month),
                                 !.timers = Tail(@)])
    /\ UNCHANGED steps

\* Documents the page is opened on: one or two visible accounts, with or
\* without a record of the month before the current one.
PageDocuments ==
    {[accounts |-> accounts, records |-> records, logs |-> <<>>,
      settings |-> defaultSettings, version |-> CURRENT_VERSION] :
        accounts \in {<<ReadAccount("1", "cash", 2, TRUE, FALSE)>>,
                      <<ReadAccount("1", "cash", 2, TRUE, FALSE),
                        ReadAccount("2", "debt", 0 - 1, TRUE, FALSE)>>},
        records \in {<<>>, <<MonthlyRecord("r1", "1", 2023, 11, 0 - 1)>>}}

\* The periods of the month picker.
PickerPeriods == {<<2023, 11>>, <<2023, 12>>, <<2024, 1>>}

InitRecordPage ==
    /\ setItemThrows = FALSE
    /\ storage \in {saveData(document) : document \in PageDocuments}
    /\ defaultState = [accounts |-> <<>>, records |-> <<>>, logs |-> <<>>,
                       settings |-> defaultSettings, version |-> CURRENT_VERSION]
    /\ idSeq = 0
    /\ clock = 0
    /\ steps = 0
    /\ op = [name |-> "init", args |-> <<>>, ret |-> "void"]
    /\ page = RecordPageMount

NextRecordPage ==
    \/ runEffect
    \/ runTimer
    \/ goToPrev
    \/ goToNext
    \/ \E p \in PickerPeriods : handleSelectMonth(p[1], p[2])
    \/ \E mode \in {"monthly", "yearly"} : setRecordMode(mode)
    \/ \E i \in 1..Len(page.accounts), numValue \in Balances :
            handleBalanceChange(page.accounts[i].id, numValue)

SpecRecordPage == InitRecordPage /\ [][NextRecordPage]_vars

\* ================================================================ properties
accountIds(data) == {a.id : a \in Range(data.accounts)}

\* Positions of the records of one (account, year, month).
recordsAt(records, accountId, year, month) ==
    {i \in 1..Len(records) :
        records[i].accountId = accountId /\ records[i].year = year /\ records[i].month = month}

\* The items that were appended to an array by the last step.
appended(before, after) == SubSeq(after, Len(before) + 1, Len(after))

isPrefix(before, after) ==
    Len(before) <= Len(after) /\ SubSeq(after, 1, Len(before)) = before

\* C1: the records collection holds at most one MonthlyRecord per
\* (accountId, year, month), in every reachable state.
C1_OneRecordPerAccountMonth ==
    \A i, j \in 1..Len(loadData.records) :
        (/\ loadData.records[i].accountId = loadData.records[j].accountId
         /\ loadData.records[i].year = loadData.records[j].year
         /\ loadData.records[i].month = loadData.records[j].month) => i = j

\* C2: right after clearAllData a read returns the defaults: no accounts, no
\* records, no logs, hideBalance false, theme blue.
C2_ClearRevertsToDefaults ==
    op.name = "clearAllData" =>
        /\ loadData.accounts = <<>>
        /\ loadData.records = <<>>
        /\ loadData.logs = <<>>
        /\ loadData.settings = [hideBalance |-> FALSE, theme |-> "blue"]

\* C3: deleteAccount(id) of an existing id returns true; afterwards no account
\* has that id, no record and no log has accountId = id, and the accounts,
\* records and logs of the other accounts are as before.
C3_DeleteAccountCascades ==
    [][(op'.name = "deleteAccount" /\ op'.args[1] \in accountIds(loadData)) =>
        LET id == op'.args[1]
        IN  /\ op'.ret = "true"
            /\ id \notin accountIds(loadData')
            /\ loadData'.accounts = SelectSeq(loadData.accounts, LAMBDA a : a.id # id)
            /\ loadData'.records = SelectSeq(loadData.records, LAMBDA r : r.accountId # id)
            /\ loadData'.logs = SelectSeq(loadData.logs, LAMBDA l : l.accountId # id)
      ]_vars

\* C4: updateAccount, deleteAccount, setMonthlyRecord, deleteMonthlyRecord and
\* deleteRecordLog called with an identifier that matches nothing stored leave
\* the accounts, records and logs as they were.
C4_UnknownIdentifierIsNoOp ==
    [][( \/ /\ op'.name \in {"updateAccount", "deleteAccount", "setMonthlyRecord"}
            /\ op'.args[1] \notin accountIds(loadData)
         \/ /\ op'.name = "deleteMonthlyRecord"
            /\ op'.args[1] \notin {r.id : r \in Range(loadData.records)}
         \/ /\ op'.name = "deleteRecordLog"
            /\ op'.args[1] \notin {l.id : l \in Range(loadData.logs)} ) =>
        /\ loadData'.accounts = loadData.accounts
        /\ loadData'.records = loadData.records
        /\ loadData'.logs = loadData.logs
      ]_vars

\* A payload that does not parse or lacks the accounts or the records field.
malformed(payload) ==
    \/ ~payload.parsed
    \/ "accounts" \notin DOMAIN payload.data
    \/ "records" \notin DOMAIN payload.data

\* C5: importData of a malformed payload, in either mode, returns false and
\* the document read afterwards is the document read before.
C5_MalformedImportRejected ==
    [][(op'.name = "importData" /\ malformed(op'.args[1])) =>
        /\ op'.ret = "false"
        /\ loadData' = loadData
      ]_vars

\* C5 witness: a malformed payload was refused while the document held accounts.
C5_Witness ==
    /\ op.name = "importData"
    /\ malformed(op.args[1])
    /\ op.ret = "false"
    /\ loadData.accounts # <<>>

\* C6: addAccount appends the new account and exactly one account_create log
\* for it (old balance 0, new balance the initial balance); it appends one
\* record (current year and month, the initial balance) when the initial
\* balance is not zero and no record otherwise.
C6_AddAccountLogAndRecord ==
    [][op'.name = "addAccount" =>
        LET account == op'.args[1]
            before == loadData
            after == loadData'
            new == after.accounts[Len(after.accounts)]
            log == after.logs[Len(after.logs)]
            ym == getCurrentYearMonth
        IN  /\ Len(after.accounts) = Len(before.accounts) + 1
            /\ isPrefix(before.accounts, after.accounts)
            /\ new.id \notin accountIds(before)
            /\ new.balance = account.balance
            /\ Len(after.logs) = Len(before.logs) + 1
            /\ isPrefix(before.logs, after.logs)
            /\ log.operationType = "account_create"
            /\ log.accountId = new.id
            /\ log.oldBalance = 0
            /\ log.newBalance = account.balance
            /\ Cardinality({i \in 1..Len(after.logs) :
                    after.logs[i].accountId = new.id
                    /\ after.logs[i].operationType = "account_create"}) = 1
            /\ isPrefix(before.records, after.records)
            /\ IF account.balance # 0
               THEN /\ Len(after.records) = Len(before.records) + 1
                    /\ LET record == after.records[Len(after.records)]
                       IN  /\ record.accountId = new.id
                           /\ record.year = ym.year
                           /\ record.month = ym.month
                           /\ record.balance = account.balance
               ELSE /\ after.records = before.records
                    /\ \A r \in Range(after.records) : r.accountId # new.id
      ]_vars

\* C6 witness: an account was added with balance 0; it has its account_create
\* log and no record.
C6_Witness ==
    /\ op.name = "addAccount"
    /\ op.args[1].balance = 0
    /\ LET new == loadData.accounts[Len(loadData.accounts)]
           log == loadData.logs[Len(loadData.logs)]
       IN  /\ log.operationType = "account_create"
           /\ log.accountId = new.id
           /\ log.newBalance = 0
           /\ \A r \in Range(loadData.records) : r.accountId # new.id

\* C7: updateAccount(id, updates) of an existing account sets the current-month
\* record of id to the new balance (in place when there is one, appended when
\* there is none) and appends one balance_change log (old balance the account's
\* prior balance field, new balance the new one) exactly when updates carries a
\* balance that differs from the prior balance field; otherwise the records
\* are as before and no balance_change log is appended.
C7_UpdateAccountBalanceChange ==
    [][(op'.name = "updateAccount" /\ op'.ret = "account") =>
        LET id == op'.args[1]
            updates == op'.args[2]
            before == loadData
            after == loadData'
            old == before.accounts[findAccount(before.accounts, id)]
            ym == getCurrentYearMonth
            changes == SelectSeq(appended(before.logs, after.logs),
                                 LAMBDA l : l.operationType = "balance_change")
            at == recordsAt(before.records, id, ym.year, ym.month)
        IN  /\ isPrefix(before.logs, after.logs)
            /\ IF "balance" \in DOMAIN updates /\ updates.balance # old.balance
               THEN /\ Len(changes) = 1
                    /\ changes[1].accountId = id
                    /\ changes[1].year = ym.year
                    /\ changes[1].month = ym.month
                    /\ changes[1].oldBalance = old.balance
                    /\ changes[1].newBalance = updates.balance
                    /\ IF at # {}
                       THEN LET k == CHOOSE i \in at : \A j \in at : i <= j
                            IN  after.records = [before.records EXCEPT ![k].balance = updates.balance]
                       ELSE /\ Len(after.records) = Len(before.records) + 1
                            /\ isPrefix(before.records, after.records)
                            /\ LET record == after.records[Len(after.records)]
                               IN  /\ record.accountId = id
                                   /\ record.year = ym.year
                                   /\ record.month = ym.month
                                   /\ record.balance = updates.balance
               ELSE /\ changes = <<>>
                    /\ after.records = before.records
      ]_vars

\* C7 witness: updateAccount changed the balance of an account that already
\* had a current-month record, and logged the change.
C7_Witness ==
    /\ op.name = "updateAccount"
    /\ op.ret = "account"
    /\ "balance" \in DOMAIN op.args[2]
    /\ loadData.logs # <<>>
    /\ LET log == loadData.logs[Len(loadData.logs)]
           ym == getCurrentYearMonth
       IN  /\ log.operationType = "balance_change"
           /\ log.id = ToString(idSeq)
           /\ log.accountId = op.args[1]
           /\ log.newBalance = op.args[2].balance
           /\ log.oldBalance # log.newBalance
           /\ \E r \in Range(loadData.records) :
                /\ r.accountId = op.args[1] /\ r.year = ym.year /\ r.month = ym.month
                /\ r.balance = op.args[2].balance

\* C8: every account_edit log that updateAccount appends has oldBalance equal
\* to newBalance, both the balance the account has after the call, also when
\* the same call changes the balance.
C8_AccountEditLogBalancesEqual ==
    [][(op'.name = "updateAccount" /\ op'.ret = "account") =>
        LET account == loadData'.accounts[findAccount(loadData.accounts, op'.args[1])]
        IN  \A l \in Range(appended(loadData.logs, loadData'.logs)) :
                l.operationType = "account_edit" =>
                    /\ l.oldBalance = l.newBalance
                    /\ l.newBalance = account.balance
      ]_vars

\* C9: setMonthlyRecord(accountId, year, month, balance) of an existing account
\* appends exactly one balance_change log (old balance that of the record of
\* that exact month, or the account's baseline balance when there is no such
\* record; new balance the given one) when the old balance differs from the
\* given balance, and appends no log when it does not.
C9_SetMonthlyRecordLogsChange ==
    [][(op'.name = "setMonthlyRecord" /\ op'.args[1] \in accountIds(loadData)) =>
        LET accountId == op'.args[1]
            year == op'.args[2]
            month == op'.args[3]
            balance == op'.args[4]
            before == loadData
            after == loadData'
            at == recordsAt(before.records, accountId, year, month)
            account == before.accounts[CHOOSE i \in 1..Len(before.accounts) :
                            /\ before.accounts[i].id = accountId
                            /\ \A j \in 1..(i - 1) : before.accounts[j].id # accountId]
            oldBalance == IF at # {}
                          THEN before.records[CHOOSE i \in at : \A j \in at : i <= j].balance
                          ELSE account.balance
        IN  IF oldBalance # balance
            THEN /\ Len(after.logs) = Len(before.logs) + 1
                 /\ isPrefix(before.logs, after.logs)
                 /\ LET log == after.logs[Len(after.logs)]
                    IN  /\ log.operationType = "balance_change"
                        /\ log.accountId = accountId
                        /\ log.year = year
                        /\ log.month = month
                        /\ log.oldBalance = oldBalance
                        /\ log.newBalance = balance
            ELSE after.logs = before.logs
      ]_vars

\* C9 witness: setMonthlyRecord changed the balance of an existing record of an
\* existing account and logged the record's balance, not the baseline, as old.
C9_Witness ==
    /\ op.name = "setMonthlyRecord"
    /\ op.args[1] \in accountIds(loadData)
    /\ loadData.logs # <<>>
    /\ LET log == loadData.logs[Len(loadData.logs)]
       IN  /\ log.operationType = "balance_change"
           /\ log.id = ToString(idSeq)
           /\ log.accountId = op.args[1]
           /\ log.year = op.args[2]
           /\ log.month = op.args[3]
           /\ log.newBalance = op.args[4]
           /\ \E a \in Range(loadData.accounts) :
                a.id = op.args[1] /\ a.balance # log.oldBalance

\* C10: setMonthlyRecord on a document with at most one record at
\* (accountId, year, month) leaves exactly one record there, with the given
\* balance; an existing record keeps its identifier and the number of records
\* does not grow; the records at other coordinates and the accounts are as before.
C10_SetMonthlyRecordUpsertsInPlace ==
    [][(/\ op'.name = "setMonthlyRecord"
        /\ Cardinality(recordsAt(loadData.records, op'.args[1], op'.args[2], op'.args[3])) <= 1) =>
        LET accountId == op'.args[1]
            year == op'.args[2]
            month == op'.args[3]
            balance == op'.args[4]
            before == loadData
            after == loadData'
            at == recordsAt(before.records, accountId, year, month)
            at2 == recordsAt(after.records, accountId, year, month)
            elsewhere(records) ==
                SelectSeq(records, LAMBDA r :
                    ~(r.accountId = accountId /\ r.year = year /\ r.month = month))
        IN  /\ Cardinality(at2) = 1
            /\ \A i \in at2 : after.records[i].balance = balance
            /\ at # {} =>
                /\ Len(after.records) = Len(before.records)
                /\ at2 = at
                /\ \A i \in at : after.records[i].id = before.records[i].id
            /\ elsewhere(after.records) = elsewhere(before.records)
            /\ after.accounts = before.accounts
      ]_vars

\* C10 witness: setMonthlyRecord rewrote the one record of its coordinates in
\* place: the record is older than the log the call wrote.
C10_Witness ==
    /\ op.name = "setMonthlyRecord"
    /\ LET at == recordsAt(loadData.records, op.args[1], op.args[2], op.args[3])
       IN  /\ Cardinality(at) = 1
           /\ \A i \in at : /\ loadData.records[i].balance = op.args[4]
                            /\ loadData.records[i].id # ToString(idSeq)
    /\ loadData.logs # <<>>
    /\ LET log == loadData.logs[Len(loadData.logs)]
       IN  /\ log.id = ToString(idSeq)
           /\ log.operationType = "balance_change"
           /\ log.accountId = op.args[1]
           /\ log.newBalance = op.args[4]

\* Net worth of a document at (year, month).
netWorthOf(data, year, month) ==
    totalAssetsLoop(data.accounts, recordsOfMonth(data.records, year, month), 1, 0)
    - totalLiabilitiesLoop(data.accounts, recordsOfMonth(data.records, year, month), 1, 0)

\* addAccount with a non-zero balance was the last call and the next one is
\* setMonthlyRecord of that account, at the current month, to another balance.
addThenSet ==
    /\ op.name = "addAccount"
    /\ op.args[1].balance # 0
    /\ op'.name = "setMonthlyRecord"
    /\ op'.args[1] = loadData.accounts[Len(loadData.accounts)].id
    /\ op'.args[2] = getCurrentYearMonth.year
    /\ op'.args[3] = getCurrentYearMonth.month
    /\ op'.args[4] # op.args[1].balance

\* C11: after addAccount with a non-zero balance b directly followed by
\* setMonthlyRecord of the new account at the current year and month to b2 # b,
\* the logs of the current month for that account are one account_create
\* (0 to b) and one balance_change (b to b2), and the net worth of the current
\* month counts b2 for the account.
C11_AddThenSetLogsAndNetWorth ==
    [][addThenSet =>
        LET id == op'.args[1]
            year == op'.args[2]
            month == op'.args[3]
            b == op.args[1].balance
            b2 == op'.args[4]
            account == loadData.accounts[Len(loadData.accounts)]
            logs == SelectSeq(logsOfPeriod(loadData'.logs, year, <<month>>),
                              LAMBDA l : l.accountId = id)
            creates == SelectSeq(logs, LAMBDA l : l.operationType = "account_create")
            changes == SelectSeq(logs, LAMBDA l : l.operationType = "balance_change")
        IN  /\ Len(creates) = 1
            /\ creates[1].oldBalance = 0
            /\ creates[1].newBalance = b
            /\ Len(changes) = 1
            /\ changes[1].oldBalance = b
            /\ changes[1].newBalance = b2
            /\ resolvedBalance(account, recordsOfMonth(loadData'.records, year, month)) = b2
            /\ netWorthOf(loadData', year, month) = netWorthOf(loadData, year, month) - b + b2
      ]_vars

\* C11 witness: the account added last with a non-zero balance had its
\* current-month record set to another balance by the following call.
C11_Witness ==
    /\ op.name = "setMonthlyRecord"
    /\ op.args[2] = getCurrentYearMonth.year
    /\ op.args[3] = getCurrentYearMonth.month
    /\ loadData.accounts # <<>>
    /\ LET account == loadData.accounts[Len(loadData.accounts)]
           logs == SelectSeq(getRecordLogs(op.args[2], <<op.args[3]>>),
                             LAMBDA l : l.accountId = account.id)
       IN  /\ account.id = op.args[1]
           /\ account.balance # 0
           /\ account.balance # op.args[4]
           /\ Len(logs) = 2
           /\ \E i, j \in 1..2 :
                /\ logs[i].id = ToString(idSeq)
                /\ logs[i].operationType = "balance_change"
                /\ logs[j].id = ToString(idSeq - 1)
                /\ logs[j].operationType = "account_create"
           /\ calculateNetWorth(op.args[2], op.args[3]) = op.args[4]

\* The identifiers of the items of an array are pairwise distinct.
distinctIds(items) ==
    \A i, j \in 1..Len(items) : items[i].id = items[j].id => i = j

\* C12: period-targeted importData of a well-formed payload returns true;
\* the records and logs are the kept ones (all of them in merge mode, those
\* outside the target period in overwrite mode), unchanged, followed by the
\* imported ones, each re-dated to the target period under a fresh
\* identifier; the accounts are the existing ones, unchanged, followed by the
\* imported accounts whose identifier did not exist.
C12_TargetedImport ==
    [][(op'.name = "importData" /\ ~malformed(op'.args[1]) /\ op'.args[2] # <<>>) =>
        LET payload == op'.args[1].data
            targetYear == op'.args[2][1]
            targetMonth == op'.args[2][2]
            overwrite == op'.args[3] = "overwrite"
            before == loadData
            after == loadData'
            outside(items) ==
                SelectSeq(items, LAMBDA x : x.year # targetYear \/ x.month # targetMonth)
            keptRecords == IF overwrite THEN outside(before.records) ELSE before.records
            keptLogs == IF overwrite THEN outside(before.logs) ELSE before.logs
            payloadLogList == IF "logs" \in DOMAIN payload THEN payload.logs ELSE <<>>
            newRecords == appended(keptRecords, after.records)
            newLogs == appended(keptLogs, after.logs)
            redated(new, old) ==
                /\ new.year = targetYear
                /\ new.month = targetMonth
                /\ \A f \in DOMAIN old \ {"id", "year", "month", "timestamp"} : new[f] = old[f]
        IN  /\ op'.ret = "true"
            /\ isPrefix(keptRecords, after.records)
            /\ Len(newRecords) = Len(payload.records)
            /\ \A k \in 1..Len(newRecords) :
                /\ redated(newRecords[k], payload.records[k])
                /\ newRecords[k].id \notin {r.id : r \in Range(before.records)}
            /\ distinctIds(newRecords)
            /\ isPrefix(keptLogs, after.logs)
            /\ Len(newLogs) = Len(payloadLogList)
            /\ \A k \in 1..Len(newLogs) :
                /\ redated(newLogs[k], payloadLogList[k])
                /\ newLogs[k].id \notin {l.id : l \in Range(before.logs)}
            /\ distinctIds(newLogs)
            /\ after.accounts =
                   before.accounts
                   \o SelectSeq(payload.accounts, LAMBDA a : a.id \notin accountIds(before))
      ]_vars

\* C12 witness: an overwrite import into a period purged the record of a local
\* account and dropped an imported account whose identifier existed.
C12_Witness ==
    /\ op.name = "importData"
    /\ op.ret = "true"
    /\ op.args[2] # <<>>
    /\ op.args[3] = "overwrite"
    /\ \E a \in Range(op.args[1].data.accounts) : a \notin Range(loadData.accounts)
    /\ \E a \in Range(loadData.accounts) :
        /\ a.id # ForeignId
        /\ a.balance # 0
        /\ \A r \in Range(loadData.records) : r.accountId # a.id
    /\ \A r \in Range(loadData.records) :
        r.year = op.args[2][1] /\ r.month = op.args[2][2]
    /\ Len(loadData.records) = Len(op.args[1].data.records)

\* C13: whole-document importData of a well-formed payload returns true and
\* the document read afterwards is a function of the payload alone: its
\* accounts and records are the payload's, its logs the payload's or none when
\* the payload has none, its settings the defaults overlaid by the payload's.
C13_WholeImportReplaces ==
    [][(op'.name = "importData" /\ ~malformed(op'.args[1]) /\ op'.args[2] = <<>>) =>
        LET payload == op'.args[1].data
            after == loadData'
            given(field) ==
                IF "settings" \in DOMAIN payload /\ field \in DOMAIN payload.settings
                THEN payload.settings[field]
                ELSE [hideBalance |-> FALSE, theme |-> "blue"][field]
        IN  /\ op'.ret = "true"
            /\ after.accounts = payload.accounts
            /\ after.records = payload.records
            /\ after.logs = IF "logs" \in DOMAIN payload THEN payload.logs ELSE <<>>
            /\ after.settings = [hideBalance |-> given("hideBalance"), theme |-> given("theme")]
      ]_vars

\* C13 witness: a whole-document import without logs and settings replaced a
\* document that had accounts and logs.
C13_Witness ==
    /\ op.name = "importData"
    /\ op.ret = "true"
    /\ op.args[2] = <<>>
    /\ "logs" \notin DOMAIN op.args[1].data
    /\ "settings" \notin DOMAIN op.args[1].data
    /\ idSeq > 0
    /\ defaultState.accounts # <<>>
    /\ loadData.accounts = op.args[1].data.accounts
    /\ loadData.logs = <<>>
    /\ loadData.settings = defaultSettings

\* (year, month) of an item lies between start and end, both included.
within(item, start, end) ==
    /\ item.year > start[1] \/ (item.year = start[1] /\ item.month >= start[2])
    /\ item.year < end[1] \/ (item.year = end[1] /\ item.month <= end[2])

\* C14: importing in whole-document mode what exportDataByRange(start, end)
\* returned gives true and a document with the accounts of the original and
\* exactly the original records and logs whose (year, month) is in the range.
C14_ExportImportRoundTrip ==
    [][\A start \in Periods, end \in Periods :
        (/\ op'.name = "importData"
         /\ op'.args[2] = <<>>
         /\ op'.args[1] = exportDataByRange(start[1], start[2], end[1], end[2])) =>
            /\ op'.ret = "true"
            /\ loadData'.accounts = loadData.accounts
            /\ loadData'.records =
                   SelectSeq(loadData.records, LAMBDA r : within(r, start, end))
            /\ loadData'.logs =
                   SelectSeq(loadData.logs, LAMBDA l : within(l, start, end))
      ]_vars

\* C14 witness: an export of one month was imported back; a local account is
\* there with its record and log of that month, without its creation log.
C14_Witness ==
    /\ op.name = "importData"
    /\ op.ret = "true"
    /\ op.args[2] = <<>>
    /\ "version" \in DOMAIN op.args[1].data
    /\ loadData.accounts # <<>>
    /\ loadData.records # <<>>
    /\ loadData.logs # <<>>
    /\ \E a \in Range(loadData.accounts) :
        /\ a.balance # 0
        /\ a.id # ForeignId
        /\ \E r \in Range(loadData.records) : r.accountId = a.id /\ r.year = 2024
        /\ \A r \in Range(loadData.records) : r.accountId = a.id => r.year = 2024
        /\ \A l \in Range(loadData.logs) :
            l.accountId = a.id => l.operationType # "account_create"

\* C15: exportDataByRange outputs all the accounts, and a record or a log of
\* the document is in the output if and only if
\* startYear*100+startMonth <= year*100+month <= endYear*100+endMonth; nothing
\* else is in the output and the stored document is not modified.
C15_ExportByRange ==
    [][op'.name = "exportDataByRange" =>
        LET startKey == op'.args[1] * 100 + op'.args[2]
            endKey == op'.args[3] * 100 + op'.args[4]
            out == op'.ret.data
            chosen(x) == startKey <= x.year * 100 + x.month /\ x.year * 100 + x.month <= endKey
        IN  /\ out.accounts = loadData.accounts
            /\ \A r \in Range(loadData.records) : r \in Range(out.records) <=> chosen(r)
            /\ Range(out.records) \subseteq Range(loadData.records)
            /\ \A l \in Range(loadData.logs) : l \in Range(out.logs) <=> chosen(l)
            /\ Range(out.logs) \subseteq Range(loadData.logs)
            /\ storage' = storage
            /\ loadData' = loadData
      ]_vars

\* C15 witness: an export over a range that holds one of the records and one of
\* the logs and leaves another record and another log out, of a document whose
\* only account is hidden.
C15_Witness ==
    /\ op.name = "exportDataByRange"
    /\ Len(op.ret.data.records) >= 1
    /\ Len(loadData.records) > Len(op.ret.data.records)
    /\ Len(op.ret.data.logs) = 1
    /\ Len(loadData.logs) = 2
    /\ Len(op.ret.data.accounts) = 1
    /\ op.ret.data.accounts[1].isHidden

\* The sum of a sequence of numbers.
RECURSIVE sum(_)
sum(numbers) == IF numbers = <<>> THEN 0 ELSE numbers[1] + sum(Tail(numbers))

\* The balance an aggregate takes for an account at (year, month): that of its
\* record of that month when it has one, its baseline balance otherwise.
balanceAt(data, account, year, month) ==
    LET own == SelectSeq(data.records, LAMBDA r :
                   r.accountId = account.id /\ r.year = year /\ r.month = month)
    IN  IF own # <<>> THEN own[1].balance ELSE account.balance

\* What one account adds to the assets.
assetPart(account, b) ==
    IF account.isHidden THEN 0
    ELSE IF account.type = "credit" THEN (IF b < 0 THEN 0 - b ELSE 0)
    ELSE IF account.type = "debt" THEN 0
    ELSE b

\* What one account adds to the liabilities.
liabilityPart(account, b) ==
    IF account.isHidden THEN 0
    ELSE IF account.type = "credit" THEN (IF b > 0 THEN b ELSE 0)
    ELSE IF account.type = "debt" THEN (IF b < 0 THEN 0 - b ELSE b)
    ELSE 0

aggregateOf(name, data, year, month) ==
    LET records == recordsOfMonth(data.records, year, month)
    IN  CASE name = "calculateTotalAssets" -> totalAssetsLoop(data.accounts, records, 1, 0)
          [] name = "calculateTotalLiabilities" -> totalLiabilitiesLoop(data.accounts, records, 1, 0)
          [] name = "calculateNetWorth" -> netWorthOf(data, year, month)
          [] name = "calculateLoanOut" -> loanOutLoop(data.accounts, records, 1, 0)
          [] name = "calculateDebtIn" -> debtInLoop(data.accounts, records, 1, 0)

\* The documents that differ from data in the balance or in the monthly
\* records of one hidden account: its balance changed, its records rewritten
\* to another balance or removed.
hiddenVariants(data) ==
    LET hidden == {i \in 1..Len(data.accounts) : data.accounts[i].isHidden}
        rewritten(i, b) ==
            [k \in 1..Len(data.records) |->
                IF data.records[k].accountId = data.accounts[i].id
                THEN [data.records[k] EXCEPT !.balance = b]
                ELSE data.records[k]]
        removed(i) ==
            SelectSeq(data.records, LAMBDA r : r.accountId # data.accounts[i].id)
    IN  UNION {{[data EXCEPT !.accounts[i].balance = b],
                [data EXCEPT !.records = rewritten(i, b)],
                [data EXCEPT !.records = removed(i)]} :
                    i \in hidden, b \in ReadBalances}

\* C17: the result of calculateTotalAssets, calculateTotalLiabilities,
\* calculateNetWorth, calculateLoanOut and calculateDebtIn does not change
\* when the balance or the monthly records of a hidden account are changed.
C17_HiddenAccountsExcluded ==
    op.name \in {"calculateTotalAssets", "calculateTotalLiabilities", "calculateNetWorth",
                 "calculateLoanOut", "calculateDebtIn"} =>
        \A other \in hiddenVariants(loadData) :
            aggregateOf(op.name, other, op.args[1], op.args[2]) = op.ret

\* The documents that differ from data only in the includeInTotal flags.
includeInTotalVariants(data) ==
    {[data EXCEPT !.accounts =
        [i \in 1..Len(data.accounts) |-> [data.accounts[i] EXCEPT !.includeInTotal = flags[i]]]] :
            flags \in [1..Len(data.accounts) -> BOOLEAN]}

priorPeriod(name, args) ==
    IF name = "getYearlyNetWorth" THEN <<args[1] - 1, 12>>
    ELSE IF args[2] = 1 THEN <<args[1] - 1, 12>>
    ELSE <<args[1], args[2] - 1>>

C20_YearlyUsesLastRecordedMonth ==
    op.name = "getYearlyNetWorth" =>
        LET year == op.args[1]
            recorded == {m \in 1..12 :
                            \E r \in Range(loadData.records) : r.year = year /\ r.month = m}
            used == IF recorded = {} THEN 12
                    ELSE CHOOSE m \in recorded : \A n \in recorded : n <= m
        IN  /\ op.ret.lastRecordedMonth = used
            /\ op.ret.totalAssets = aggregateOf("calculateTotalAssets", loadData, year, used)
            /\ op.ret.totalLiabilities = aggregateOf("calculateTotalLiabilities", loadData, year, used)
            /\ op.ret.netWorth = netWorthOf(loadData, year, used)

\* C20 witness: getYearlyNetWorth of a year with a record in November only
\* reported month 11 and the assets of that record, not of the baseline.
C20_Witness ==
    /\ op.name = "getYearlyNetWorth"
    /\ op.args[1] = 2023
    /\ op.ret.lastRecordedMonth = 11
    /\ Len(loadData.accounts) = 1
    /\ loadData.accounts[1].type = "cash"
    /\ ~loadData.accounts[1].isHidden
    /\ loadData.accounts[1].balance = 0
    /\ op.ret.totalAssets = 2
\* ---------------------------------------------------------------------- C21
\* The periods of the stored records, and the current one.
recordedPeriods(data) ==
    {<<r.year, r.month>> : r \in Range(data.records)}
    \cup {<<getCurrentYearMonth.year, getCurrentYearMonth.month>>}

\* The period of an entry of a monthly or a yearly series.
periodOf(name, entry) ==
    IF name = "getNetWorthHistory" THEN <<entry.year, entry.month>> ELSE <<entry.year, 0>>

\* C21: the monthly series (getNetWorthHistory called without an argument) and
\* the yearly series (getYearlyNetWorthHistory) hold exactly one entry for every
\* distinct period that has a record and one for the current period, recorded
\* or not, in ascending chronological order.
C21_HistoryCoversEveryPeriod ==
    op.name \in {"getNetWorthHistory", "getYearlyNetWorthHistory"} =>
        LET expected == {IF op.name = "getNetWorthHistory" THEN p ELSE <<p[1], 0>> :
                            p \in recordedPeriods(loadData)}
            got == [i \in 1..Len(op.ret) |-> periodOf(op.name, op.ret[i])]
        IN  /\ Range(got) = expected
            /\ Len(got) = Cardinality(expected)
            /\ \A i, j \in 1..Len(got) :
                    i < j => got[i][1] * 100 + got[i][2] < got[j][1] * 100 + got[j][2]

\* ---------------------------------------------------------------------- C22
\* The calls after which a log of the account accountId may be gone.
mayRemoveLogsOf(call, accountId) ==
    \/ call.name = "deleteAccount" /\ call.args[1] = accountId
    \/ call.name = "clearAllData"
    \/ call.name = "importData" /\ call.args[2] = <<>>

\* C22: the logs are append-only. Every log that exists before a call exists
\* after it with every field unchanged, unless the call is deleteAccount of the
\* account that owns the log, clearAllData or a whole-document import.
C22_LogsAppendOnly ==
    [][\A i \in 1..Len(loadData.logs) :
            \/ loadData.logs[i] \in Range(loadData'.logs)
            \/ mayRemoveLogsOf(op', loadData.logs[i].accountId)]_vars

\* ---------------------------------------------------------------------- C23
\* C23: the accountName of a log is a snapshot. An updateAccount that renames
\* the account leaves every earlier log as it was, accountName included, and
\* the account_edit log that the call writes carries the new name.
C23_AccountNameIsSnapshot ==
    [][(/\ op'.name = "updateAccount"
        /\ op'.ret = "account"
        /\ "name" \in DOMAIN op'.args[2]
        /\ loadData.accounts[findAccount(loadData.accounts, op'.args[1])].name # op'.args[2].name)
       => /\ isPrefix(loadData.logs, loadData'.logs)
          /\ LET new == appended(loadData.logs, loadData'.logs)
             IN  /\ new # <<>>
                 /\ new[Len(new)].operationType = "account_edit"
                 /\ new[Len(new)].accountId = op'.args[1]
                 /\ new[Len(new)].accountName = op'.args[2].name]_vars

\* A renaming call after which an earlier log of the account still carries the
\* old name and the account_edit log the new one.
C23_Witness ==
    /\ op.name = "updateAccount"
    /\ op.ret = "account"
    /\ "name" \in DOMAIN op.args[2]
    /\ \E i, j \in 1..Len(loadData.logs) :
            /\ i < j
            /\ j = Len(loadData.logs)
            /\ loadData.logs[i].accountId = op.args[1]
            /\ loadData.logs[j].accountId = op.args[1]
            /\ loadData.logs[i].accountName # op.args[2].name
            /\ loadData.logs[j].operationType = "account_edit"
            /\ loadData.logs[j].accountName = op.args[2].name

\* ---------------------------------------------------------------------- C24
\* The identifiers of the accounts, in the order of the collection.
idsInOrder(accounts) == [i \in 1..Len(accounts) |-> accounts[i].id]

\* C24: account identifiers are unique and immutable. After every addAccount,
\* updateAccount (whatever the partial holds), deleteAccount and importData no
\* two accounts share an identifier, and addAccount, updateAccount and a
\* period-targeted import leave the identifier of every existing account as it was.
C24_AccountIdsUniqueImmutable ==
    [][op'.name \in {"addAccount", "updateAccount", "deleteAccount", "importData"}
       => /\ distinctIds(loadData'.accounts)
          /\ (\/ op'.name \in {"addAccount", "updateAccount"}
              \/ op'.name = "importData" /\ op'.args[2] # <<>>)
             => isPrefix(idsInOrder(loadData.accounts), idsInOrder(loadData'.accounts))]_vars

\* ---------------------------------------------------------------------- C25
\* How many times x occurs in a sequence.
occurrences(items, x) == Cardinality({i \in 1..Len(items) : items[i] = x})

\* Whether a log answers the query of a call of getRecordLogs or getRecordLogsByAccount.
answersQuery(call, log) ==
    IF call.name = "getRecordLogsByAccount" THEN log.accountId = call.args[1]
    ELSE /\ log.year = call.args[1]
         /\ call.args[2] # <<>> => log.month = call.args[2][1]

\* C25: getRecordLogs(year, month) returns exactly the logs of that year and
\* month (of the whole year when the month is omitted) and
\* getRecordLogsByAccount(id) exactly the logs of that account: every such log
\* once, no other log, ordered by non-increasing timestamp.
C25_LogQueries ==
    op.name \in {"getRecordLogs", "getRecordLogsByAccount"} =>
        /\ \A x \in Range(loadData.logs) \cup Range(op.ret) :
                occurrences(op.ret, x)
                    = IF answersQuery(op, x) THEN occurrences(loadData.logs, x) ELSE 0
        /\ \A i, j \in 1..Len(op.ret) : i < j => op.ret[i].timestamp >= op.ret[j].timestamp

\* A query of one month that leaves logs out and returns two logs of its month
\* in the reverse of the order they are stored in.
C25_Witness ==
    /\ op.name = "getRecordLogs"
    /\ op.args[2] # <<>>
    /\ Len(op.ret) < Len(loadData.logs)
    /\ \E i, j \in 1..Len(loadData.logs) :
            /\ i < j
            /\ loadData.logs[i].timestamp < loadData.logs[j].timestamp
            /\ \E k, l \in 1..Len(op.ret) :
                    k < l /\ op.ret[k] = loadData.logs[j] /\ op.ret[l] = loadData.logs[i]

\* ---------------------------------------------------------------------- C26
\* The operations that write the document.
MutatingOperations ==
    {"addAccount", "updateAccount", "deleteAccount", "setMonthlyRecord", "updateSettings",
     "importData", "copyLastMonthBalances"}

\* C26: when the storage write throws, every mutating operation completes
\* without propagating an exception, and a read after it returns the document
\* as it was before the failed mutation.
C26_FailedWriteLeavesDocument ==
    [][(setItemThrows /\ op'.name \in MutatingOperations)
       => /\ op'.ret # "throws"
          /\ loadData' = loadData]_vars

\* ---------------------------------------------------------------------- C27
\* C27: every balance_change log that setMonthlyRecord or updateAccount appends
\* has as oldBalance the balance that the resolution rule (the record of that
\* exact month, else the baseline of the account) gave for its account and its
\* month right before the call, also when updateAccount finds a record of the
\* current month that differs from the baseline.
C27_OldBalanceIsResolvedBalance ==
    [][op'.name \in {"setMonthlyRecord", "updateAccount"}
       => LET new == appended(loadData.logs, loadData'.logs)
          IN  \A i \in 1..Len(new) :
                new[i].operationType = "balance_change"
                => new[i].oldBalance
                     = balanceAt(loadData,
                                 loadData.accounts[findAccount(loadData.accounts, new[i].accountId)],
                                 new[i].year, new[i].month)]_vars

\* ---------------------------------------------------------------------- C28
\* C28: the change of getYearlyNetWorth(y) is its net worth minus the net worth
\* of getYearlyNetWorth(y - 1), also when the last recorded month of the year
\* y - 1 is not December.
C28_YearlyChangeAgainstPriorYear ==
    op.name = "getYearlyNetWorth" =>
        op.ret.change = op.ret.netWorth - getYearlyNetWorth(op.args[1] - 1).netWorth

\* ---------------------------------------------------------------------- C29
\* C29: a period-targeted import is last-write-wins. After a successful import
\* in merge or in overwrite mode, for every account that has a record in the
\* payload, the balance that the aggregation functions resolve for it in the
\* target period is a balance of its records in the payload, not the balance of
\* a record that was there before.
C29_TargetedImportLastWriteWins ==
    [][(op'.name = "importData" /\ op'.ret = "true" /\ op'.args[2] # <<>>)
       => LET payload == op'.args[1].data
              target == op'.args[2]
          IN  \A i \in 1..Len(loadData'.accounts) :
                LET account == loadData'.accounts[i]
                    imported == {r \in Range(payload.records) : r.accountId = account.id}
                IN  imported # {}
                    => balanceAt(loadData', account, target[1], target[2])
                          \in {r.balance : r \in imported}]_vars

\* ---------------------------------------------------------------------- C30
\* C30: in RecordPage, however a balance edit and a period navigation are
\* interleaved, once the deferred refresh and the effects of the navigation
\* have all run, the net worth, total assets and total liabilities on display
\* are the aggregates of the period on display.
C30_DisplayedTotalsOfDisplayedPeriod ==
    (page.timers = <<>> /\ ~page.effectPending)
    => /\ page.netWorth = RecordPageLoadData(page).netWorth
       /\ page.totalAssets = RecordPageLoadData(page).totalAssets
       /\ page.totalLiabilities = RecordPageLoadData(page).totalLiabilities

====
